---- MODULE Spec2Model ----
(***************************************************************************)
(* Model of interview_agenda.py: the "Generate Agendas" handler of the     *)
(* interview scheduler.  The cleaned availability table (people_df), the   *)
(* per-interviewer durations, the per-day cap and the lunch checkbox are   *)
(* the inputs; the handler runs find_all_days, which runs                  *)
(* find_agendas_contiguous once per calendar day, and then filters the     *)
(* concatenated list with agenda_respects_lunch_rule.                      *)
(*                                                                         *)
(* Timestamps are whole minutes of local wall-clock time counted from      *)
(* midnight of day 0, so that a timestamp t lies on calendar day           *)
(* t \div (24*60).  One step of the model is one probe of an               *)
(* (ordering, start) pair by the nested loops of find_agendas_contiguous.  *)
(***************************************************************************)
EXTENDS Integers, Sequences, FiniteSets, TLC

\* fifteen = timedelta(minutes=15): the grid quantum
fifteen == 15

\* ---- bounds of the model ----
\* rows of the uploaded table
MaxRows == 3
\* quarter-hour start instants offered on the first day, from 11:45 on
NumSlots == 4
\* the slider offers 1..10; the model offers 1..MaxCap
MaxCap == 2

\* interviewers, named by their rank in sorted e-mail order
Persons == {1, 2}
\* calendar days
Dates == {1, 2}
\* lengths of an availability row on the first day, in quanta
BlockLengths == {1, 2}
\* the duration selectbox offers [15, 30, 45, 60]; the model offers the first two
DurationChoices == {fifteen, 2 * fifteen}

Midnight(d) == d * (24 * 60)
SlotStart(d, i) == Midnight(d) + (11 * 60 + 45) + i * fifteen

\* The rows the table may hold: the first day offers NumSlots starts and
\* rows of every length in BlockLengths, the second day one quarter-hour
\* (12:15-12:30) per person.
SlotsOn(d) == IF d = 1 THEN 0 .. (NumSlots - 1) ELSE {2}
LengthsOn(d) == IF d = 1 THEN BlockLengths ELSE {1}
PossibleRows ==
    UNION { { [Email |-> p, StartTime |-> SlotStart(d, i),
               EndTime |-> SlotStart(d, i) + n * fifteen] :
                 p \in Persons, i \in SlotsOn(d), n \in LengthsOn(d) } : d \in Dates }

RECURSIVE SubsetsUpTo(_, _)
SubsetsUpTo(S, k) ==
    IF k = 0 THEN {{}}
    ELSE LET prev == SubsetsUpTo(S, k - 1)
         IN  prev \cup { s \cup {x} : s \in prev, x \in S }

VARIABLES
    people_df,          \* set of rows [Email, StartTime, EndTime] after cleaning
    durations,          \* interviewer -> minutes
    max_per_day,
    avoid_lunch,
    pc,                 \* "idle", "next_day", "search", "done", "error"
    days_left,          \* dates find_all_days has still to visit, ascending
    order_i,            \* index of the ordering the outer loop is at
    start_i,            \* index of the candidate start the inner loop is at
    day_agendas_total,  \* agendas accepted for the day being searched
    seen,               \* signatures accepted for the day being searched
    agendas_all,        \* find_all_days: concatenation of the days' results
    agendas             \* the list shown to the user

vars == <<people_df, durations, max_per_day, avoid_lunch, pc, days_left,
          order_i, start_i, day_agendas_total, seen, agendas_all, agendas>>

\* ---------------- helpers ----------------
Date(t) == t \div (24 * 60)

RECURSIVE SortedSeq(_)
SortedSeq(S) ==
    IF S = {} THEN <<>>
    ELSE LET m == CHOOSE x \in S : \A y \in S : x <= y
         IN  <<m>> \o SortedSeq(S \ {m})

\* interviewers = sorted(people_df["Email"].unique())
interviewers == SortedSeq({ r.Email : r \in people_df })

RemoveAt(s, i) == SubSeq(s, 1, i - 1) \o SubSeq(s, i + 1, Len(s))

RECURSIVE Flatten(_)
Flatten(ss) == IF ss = <<>> THEN <<>> ELSE Head(ss) \o Flatten(Tail(ss))

\* itertools.permutations: lexicographic in the positions of the input
RECURSIVE permutations(_)
permutations(s) ==
    IF Len(s) = 0 THEN << <<>> >>
    ELSE Flatten([ i \in 1 .. Len(s) |->
                    LET rest == permutations(RemoveAt(s, i))
                    IN  [ j \in 1 .. Len(rest) |-> <<s[i]>> \o rest[j] ] ])

\* people_df.groupby("Date"): the frame of one day
day_frame(d) == { r \in people_df : Date(r.StartTime) = d }

\* build_blocks_map: (blocks, sorted(candidate_starts))
blocks_map(frame) ==
    [ p \in { r.Email : r \in frame } |->
        { <<r.StartTime, r.EndTime>> : r \in { q \in frame : q.Email = p } } ]
candidate_starts(frame) == SortedSeq({ r.StartTime : r \in frame })

\* a has_contiguous that stops one quantum short of the duration
has_contiguous_short(block_set, start_ts, minutes) ==
    LET steps == minutes \div fifteen
    IN  \A k \in 0 .. (steps - 2) :
           <<start_ts + k * fifteen, start_ts + (k + 1) * fifteen>> \in block_set

has_contiguous(block_set, start_ts, minutes) ==
    LET steps == minutes \div fifteen
    IN  \A k \in 0 .. (steps - 1) :
           <<start_ts + k * fifteen, start_ts + (k + 1) * fifteen>> \in block_set

\* an advance that leaves one quantum idle after each leg
advance_idle(current, need) == current + need + fifteen

\* current = current + timedelta(minutes=need)
advance(current, need) == current + need

\* the greedy walk of one (order, start) pair
RECURSIVE walk(_, _, _, _, _)
walk(blocks, order, i, current, agenda) ==
    IF i > Len(order) THEN [ok |-> TRUE, agenda |-> agenda]
    ELSE LET person == order[i]
             need == durations[person]
         IN  IF has_contiguous(blocks[person], current, need)
             THEN walk(blocks, order, i + 1, advance(current, need),
                       Append(agenda, <<person, current, current + need>>))
             ELSE [ok |-> FALSE, agenda |-> agenda]

\* Timestamp.isoformat(): date and wall-clock time
isoformat(t) == <<Date(t), (t % (24 * 60)) \div 60, t % 60>>
sig(agenda) ==
    [ i \in 1 .. Len(agenda) |->
        <<agenda[i][1], isoformat(agenda[i][2]), isoformat(agenda[i][3])>> ]

\* a cap test that lets one agenda too many through
cap_exceeded(total, cap) == Len(total) > cap

\* len(day_agendas_total) >= max_per_day
cap_reached(total, cap) == Len(total) >= cap

\* a lunch boundary at noon instead of 12:30
lunch_1200(first_local) == Midnight(Date(first_local)) + (12 * 60)

\* datetime.combine(first_local.date(), dtime(12, 30))
lunch_1230(first_local) == Midnight(Date(first_local)) + (12 * 60 + 30)

agenda_respects_lunch_rule(agenda) ==
    IF ~avoid_lunch THEN TRUE
    ELSE LET first_local == agenda[1][2]
             last_local == agenda[Len(agenda)][3]
         IN  (last_local <= lunch_1230(first_local))
                \/ (first_local >= lunch_1230(first_local))

\* ---------------- the state machine ----------------
Init ==
    /\ people_df \in SubsetsUpTo(PossibleRows, MaxRows)
    /\ durations \in [ { r.Email : r \in people_df } -> DurationChoices ]
    /\ max_per_day \in 1 .. MaxCap
    /\ avoid_lunch \in BOOLEAN
    /\ pc = "idle"
    /\ days_left = <<>>
    /\ order_i = 1
    /\ start_i = 1
    /\ day_agendas_total = <<>>
    /\ seen = {}
    /\ agendas_all = <<>>
    /\ agendas = <<>>

\* if not interviewers: st.error(...); st.stop()
GenerateNoInterviewers ==
    /\ pc = "idle"
    /\ Len(interviewers) = 0
    /\ pc' = "error"
    /\ UNCHANGED <<people_df, durations, max_per_day, avoid_lunch, days_left,
                   order_i, start_i, day_agendas_total, seen, agendas_all, agendas>>

\* the button: find_all_days starts on the days of people_df, ascending
Generate ==
    /\ pc = "idle"
    /\ Len(interviewers) > 0
    /\ pc' = "next_day"
    /\ days_left' = SortedSeq({ Date(r.StartTime) : r \in people_df })
    /\ agendas_all' = <<>>
    /\ UNCHANGED <<people_df, durations, max_per_day, avoid_lunch,
                   order_i, start_i, day_agendas_total, seen, agendas>>

missing_person(frame) ==
    \E person \in DOMAIN durations : person \notin DOMAIN blocks_map(frame)

\* find_agendas_contiguous: some interviewer has no block that day: return []
DayNoBlocks ==
    /\ pc = "next_day"
    /\ days_left # <<>>
    /\ missing_person(day_frame(Head(days_left)))
    /\ days_left' = Tail(days_left)
    /\ UNCHANGED <<people_df, durations, max_per_day, avoid_lunch, pc,
                   order_i, start_i, day_agendas_total, seen, agendas_all, agendas>>

\* find_agendas_contiguous: every interviewer has blocks: enter the loops
EnterDay ==
    /\ pc = "next_day"
    /\ days_left # <<>>
    /\ ~missing_person(day_frame(Head(days_left)))
    /\ pc' = "search"
    /\ order_i' = 1
    /\ start_i' = 1
    /\ day_agendas_total' = <<>>
    /\ seen' = {}
    /\ UNCHANGED <<people_df, durations, max_per_day, avoid_lunch, days_left,
                   agendas_all, agendas>>

orders == permutations(interviewers)

\* one pass of the inner loop body: probe (orders[order_i], starts[start_i])
Probe ==
    /\ pc = "search"
    /\ order_i <= Len(orders)
    /\ ~cap_reached(day_agendas_total, max_per_day)
    /\ LET frame == day_frame(Head(days_left))
           starts == candidate_starts(frame)
           w == walk(blocks_map(frame), orders[order_i], 1, starts[start_i], <<>>)
       IN  /\ IF w.ok /\ sig(w.agenda) \notin seen
              THEN /\ seen' = seen \cup {sig(w.agenda)}
                   /\ day_agendas_total' = Append(day_agendas_total, w.agenda)
              ELSE UNCHANGED <<seen, day_agendas_total>>
           /\ IF start_i < Len(starts)
              THEN /\ start_i' = start_i + 1
                   /\ order_i' = order_i
              ELSE /\ start_i' = 1
                   /\ order_i' = order_i + 1
    /\ UNCHANGED <<people_df, durations, max_per_day, avoid_lunch, pc, days_left,
                   agendas_all, agendas>>

\* the loops end (orderings exhausted, or break on the cap): return the day's list
ReturnDay ==
    /\ pc = "search"
    /\ \/ order_i > Len(orders)
       \/ cap_reached(day_agendas_total, max_per_day)
    /\ agendas_all' = agendas_all \o day_agendas_total
    /\ days_left' = Tail(days_left)
    /\ pc' = "next_day"
    /\ UNCHANGED <<people_df, durations, max_per_day, avoid_lunch,
                   order_i, start_i, day_agendas_total, seen, agendas>>

\* agendas = [a for a in find_all_days(...) if agenda_respects_lunch_rule(a)]
Finish ==
    /\ pc = "next_day"
    /\ days_left = <<>>
    /\ agendas' = SelectSeq(agendas_all, agenda_respects_lunch_rule)
    /\ pc' = "done"
    /\ UNCHANGED <<people_df, durations, max_per_day, avoid_lunch, days_left,
                   order_i, start_i, day_agendas_total, seen, agendas_all>>

Next ==
    \/ GenerateNoInterviewers
    \/ Generate
    \/ DayNoBlocks
    \/ EnterDay
    \/ Probe
    \/ ReturnDay
    \/ Finish

Spec == Init /\ [][Next]_vars

\* ---------------- vocabulary of the properties ----------------
Range(s) == { s[i] : i \in DOMAIN s }
Returned == Range(day_agendas_total) \cup Range(agendas_all) \cup Range(agendas)
FirstStart(a) == a[1][2]
LastEnd(a) == a[Len(a)][3]
TimeOfDay(t) == t % (24 * 60)
\* the agendas of a list that lie on day d
AgendasOn(list, d) == SelectSeq(list, LAMBDA a : Date(FirstStart(a)) = d)

\* person p is available during every minute of [s, e) on the day of s
Covers(p, s, e) ==
    \A m \in s .. (e - 1) :
        \E r \in people_df : /\ r.Email = p
                             /\ Date(r.StartTime) = Date(s)
                             /\ r.StartTime <= m
                             /\ m < r.EndTime

\* the rows of person p on day d, as (start, end) pairs
BlockSetOf(d, p) ==
    { <<r.StartTime, r.EndTime>> :
        r \in { q \in people_df : q.Email = p /\ Date(q.StartTime) = d } }

RECURSIVE DurSum(_, _)
DurSum(order, i) == IF i = 0 THEN 0 ELSE DurSum(order, i - 1) + durations[order[i]]

\* the strict back-to-back agenda of an ordering that starts at t
Plan(order, t) ==
    [ i \in 1 .. Len(order) |->
        <<order[i], t + DurSum(order, i - 1), t + DurSum(order, i)>> ]

\* every grid instant of day d at which a leg can begin
GridInstants(d) == { SlotStart(d, i) : i \in 0 .. (NumSlots + 2) }
Plans(d) == { Plan(o, t) : o \in Range(orders), t \in GridInstants(d) }

\* feasible as has_contiguous judges it: every leg passes the quarter-hour test
Feasible(d) ==
    { a \in Plans(d) :
        \A i \in 1 .. Len(a) :
            has_contiguous(BlockSetOf(d, a[i][1]), a[i][2], a[i][3] - a[i][2]) }

\* feasible by the availability itself: every leg is covered minute by minute
CoveredPlans(d) ==
    { a \in Plans(d) : \A i \in 1 .. Len(a) : Covers(a[i][1], a[i][2], a[i][3]) }

Min(x, y) == IF x <= y THEN x ELSE y

\* ---------------- C1 ----------------
\* C1: every leg (person, start, end) of every agenda the per-day search accepts
\* or returns lies entirely within that person's availability rows of that day.
C1_Coverage ==
    \A a \in Returned : \A i \in 1 .. Len(a) : Covers(a[i][1], a[i][2], a[i][3])

\* a returned agenda holds a half-hour leg, which two quarter-hour rows cover
C1_Witness ==
    /\ pc = "done"
    /\ \E a \in Range(agendas_all) :
          \E i \in 1 .. Len(a) : a[i][3] - a[i][2] = 2 * fifteen

\* ---------------- C2 ----------------
\* C2: in every accepted or returned agenda each leg starts exactly when the
\* previous leg ends (the gap is 0, which is within any allowed gap), and each
\* leg is as long as its person's duration.
C2_Sequencing ==
    \A a \in Returned :
        /\ \A i \in 1 .. Len(a) : a[i][3] - a[i][2] = durations[a[i][1]]
        /\ \A i \in 1 .. (Len(a) - 1) : a[i + 1][2] = a[i][3]

\* a returned agenda has two legs
C2_Witness ==
    /\ pc = "done"
    /\ \E a \in Range(agendas_all) : Len(a) = 2

\* ---------------- C3 ----------------
\* C3: whenever a day has a feasible agenda, the day's result holds an agenda
\* whose first leg starts at the earliest first-leg start of all feasible
\* agendas of the day; with a cap of 1 and several feasible agendas exactly
\* one agenda is returned.
C3_EarliestSurfaced ==
    pc = "done" =>
        \A d \in Dates :
            Feasible(d) # {} =>
                /\ \E a \in Range(AgendasOn(agendas_all, d)) :
                      \A b \in Feasible(d) : FirstStart(a) <= FirstStart(b)
                /\ (max_per_day = 1 /\ Cardinality(Feasible(d)) > 1)
                      => Len(AgendasOn(agendas_all, d)) = 1

\* ---------------- C4 ----------------
\* C4: when a day has more than one feasible agenda and the cap is at least 2,
\* the day's result holds an agenda whose last leg ends at the latest last-leg
\* end of all feasible agendas of the day.
C4_LatestSurfaced ==
    pc = "done" =>
        \A d \in Dates :
            (Cardinality(Feasible(d)) > 1 /\ max_per_day >= 2) =>
                \E a \in Range(AgendasOn(agendas_all, d)) :
                    \A b \in Feasible(d) : LastEnd(a) >= LastEnd(b)

\* ---------------- C5 ----------------
\* C5: if a day has k distinct feasible agendas that pass the lunch filter, the
\* list shown to the user holds exactly min(k, max_per_day) agendas of that day.
C5_FilterBeforeCap ==
    pc = "done" =>
        \A d \in Dates :
            Len(AgendasOn(agendas, d)) =
                Min(Cardinality({ a \in Feasible(d) : agenda_respects_lunch_rule(a) }),
                    max_per_day)

\* ---------------- C6 ----------------
InList(a, list) == \E i \in 1 .. Len(list) : list[i] = a

\* C6 as stated: with lunch avoidance on, an agenda is kept iff its span ends
\* at or before 12:00 or begins at or after 12:30; with it off all are kept.
C6_Original ==
    pc = "done" =>
        \A a \in Range(agendas_all) :
            InList(a, agendas) <=>
                \/ ~avoid_lunch
                \/ TimeOfDay(LastEnd(a)) <= 12 * 60
                \/ TimeOfDay(FirstStart(a)) >= 12 * 60 + 30

\* C6 (amended): with lunch avoidance on, an agenda is kept iff its span ends
\* at or before 12:30 or begins at or after 12:30, that is, iff 12:30 is not
\* strictly inside the span; with lunch avoidance off every agenda is kept.
C6_LunchFilter ==
    pc = "done" =>
        \A a \in Range(agendas_all) :
            InList(a, agendas) <=>
                \/ ~avoid_lunch
                \/ ~(TimeOfDay(FirstStart(a)) < 12 * 60 + 30
                        /\ 12 * 60 + 30 < TimeOfDay(LastEnd(a)))

\* lunch avoidance on: the search returned 12:00-12:30, which is kept, and
\* 12:15-12:45, which is dropped
C6_Witness ==
    /\ pc = "done"
    /\ avoid_lunch
    /\ \E a \in Range(agendas_all) :
          /\ TimeOfDay(FirstStart(a)) = 12 * 60
          /\ TimeOfDay(LastEnd(a)) = 12 * 60 + 30
          /\ InList(a, agendas)
    /\ \E a \in Range(agendas_all) :
          /\ TimeOfDay(FirstStart(a)) = 12 * 60 + 15
          /\ TimeOfDay(LastEnd(a)) = 12 * 60 + 45
          /\ ~InList(a, agendas)

\* ---------------- C8 ----------------
\* C8: has_contiguous for a person, start and duration is true iff the person's
\* availability of the day covers [start, start + duration), whatever the
\* lengths of the rows.
C8_ContiguousCoverage ==
    pc = "done" =>
        \A d \in Dates : \A p \in DOMAIN durations : \A t \in GridInstants(d) :
            has_contiguous(BlockSetOf(d, p), t, durations[p])
                <=> Covers(p, t, t + durations[p])

\* ---------------- C9 ----------------
\* C9: the agendas accepted for a day never number more than max_per_day, in
\* the running list and in the returned list, and no (ordering, start) pair is
\* probed once the count has reached the cap.
C9_CapRespected ==
    /\ [](/\ Len(day_agendas_total) <= max_per_day
          /\ \A d \in Dates : Len(AgendasOn(agendas_all, d)) <= max_per_day)
    /\ [][Probe => Len(day_agendas_total) < max_per_day]_vars

\* the cap is reached while (ordering, start) pairs are still unprobed
C9_Witness ==
    /\ pc = "search"
    /\ Len(day_agendas_total) = max_per_day
    /\ order_i <= Len(orders)

\* ---------------- C10 ----------------
\* C10: when the cap is at least the number of covered back-to-back agendas of
\* a day, every one of them (any ordering, any grid instant) is in the result.
C10_CandidateStartsComplete ==
    pc = "done" =>
        \A d \in Dates :
            max_per_day >= Cardinality(CoveredPlans(d)) =>
                \A a \in CoveredPlans(d) : InList(a, agendas_all)

====
